---- MODULE Spec2Model ----
(***************************************************************************)
(* A model of the flashcard slideshow generators of the repository:        *)
(*   src/slideshow_animated.py  stroke-order animation clips               *)
(*   src/slideshow.py           six-slide static clips                     *)
(*                                                                         *)
(* Times that the program handles as Python floats are modelled as IEEE    *)
(* binary64 values: a float is a record [m, e] standing for m * 2^e, with  *)
(* m a natural number of exactly MantBits bits held as a sequence of       *)
(* base-2^15 digits (least significant first), or the empty sequence for   *)
(* zero.  Every arithmetic operation rounds to nearest, ties to even, as   *)
(* the hardware does.  Only non-negative values occur in the program.      *)
(***************************************************************************)
EXTENDS Integers, Sequences, FiniteSets, TLC

(***************************************************************************)
(* Natural numbers of arbitrary size (the 53-bit mantissas and their       *)
(* products do not fit TLC's integers).                                    *)
(***************************************************************************)
Base == 2^15

DigitBits == 3 * 5

MantBits == 53

Min(a, b) == IF a <= b THEN a ELSE b

Max(a, b) == IF a >= b THEN a ELSE b

RECURSIVE BTrim(_)
BTrim(a) ==
    IF a = <<>> THEN a
    ELSE IF a[Len(a)] = 0 THEN BTrim(SubSeq(a, 1, Len(a) - 1)) ELSE a

RECURSIVE BFromInt(_)
BFromInt(n) == IF n = 0 THEN <<>> ELSE <<n % Base>> \o BFromInt(n \div Base)

RECURSIVE BToIntFrom(_, _)
BToIntFrom(a, i) == IF i > Len(a) THEN 0 ELSE a[i] + Base * BToIntFrom(a, i + 1)

BToInt(a) == BToIntFrom(a, 1)

BDigit(a, i) == IF i <= Len(a) THEN a[i] ELSE 0

\* a + b + c, from digit i on (c is the carry into digit i)
RECURSIVE BAddFrom(_, _, _, _)
BAddFrom(a, b, i, c) ==
    IF i > Len(a) /\ i > Len(b)
    THEN (IF c = 0 THEN <<>> ELSE <<c>>)
    ELSE LET s == BDigit(a, i) + BDigit(b, i) + c
         IN  <<s % Base>> \o BAddFrom(a, b, i + 1, s \div Base)

BAdd(a, b) == BAddFrom(a, b, 1, 0)

\* a - b - c from digit i on, for a >= b
RECURSIVE BSubFrom(_, _, _, _)
BSubFrom(a, b, i, c) ==
    IF i > Len(a) THEN <<>>
    ELSE LET s == a[i] - BDigit(b, i) - c
         IN  IF s < 0 THEN <<s + Base>> \o BSubFrom(a, b, i + 1, 1)
                      ELSE <<s>> \o BSubFrom(a, b, i + 1, 0)

BSub(a, b) == BTrim(BSubFrom(a, b, 1, 0))

RECURSIVE BCmpFrom(_, _, _)
BCmpFrom(a, b, i) ==
    IF i = 0 THEN 0
    ELSE IF a[i] < b[i] THEN -1
    ELSE IF a[i] > b[i] THEN 1
    ELSE BCmpFrom(a, b, i - 1)

\* -1, 0 or 1 as a < b, a = b or a > b
BCmp(a, b) ==
    IF Len(a) < Len(b) THEN -1
    ELSE IF Len(a) > Len(b) THEN 1
    ELSE BCmpFrom(a, b, Len(a))

\* a * k + c from digit i on, for 0 <= k < Base
RECURSIVE BMulSmallFrom(_, _, _, _)
BMulSmallFrom(a, k, i, c) ==
    IF i > Len(a) THEN (IF c = 0 THEN <<>> ELSE <<c>>)
    ELSE LET s == a[i] * k + c
         IN  <<s % Base>> \o BMulSmallFrom(a, k, i + 1, s \div Base)

BMulSmall(a, k) == IF k = 0 THEN <<>> ELSE BMulSmallFrom(a, k, 1, 0)

BShlDigits(a, n) == IF a = <<>> THEN a ELSE [i \in 1..n |-> 0] \o a

RECURSIVE BMulFrom(_, _, _)
BMulFrom(a, b, j) ==
    IF j > Len(b) THEN <<>>
    ELSE BAdd(BShlDigits(BMulSmall(a, b[j]), j - 1), BMulFrom(a, b, j + 1))

BMul(a, b) == BMulFrom(a, b, 1)

\* a * 2^n
BShl(a, n) == BShlDigits(BMulSmall(a, 2^(n % DigitBits)), n \div DigitBits)

\* floor(a / k) from digit i down, r the remainder carried in, for 0 < k < Base
RECURSIVE BDivSmallFrom(_, _, _, _)
BDivSmallFrom(a, k, i, r) ==
    IF i = 0 THEN <<>>
    ELSE LET s == r * Base + a[i]
         IN  BDivSmallFrom(a, k, i - 1, s % k) \o <<s \div k>>

\* floor(a / 2^n)
BShr(a, n) ==
    LET d == n \div DigitBits
        b == IF d >= Len(a) THEN <<>> ELSE SubSeq(a, d + 1, Len(a))
    IN  BTrim(BDivSmallFrom(b, 2^(n % DigitBits), Len(b), 0))

RECURSIVE IntBitLen(_)
IntBitLen(n) == IF n = 0 THEN 0 ELSE 1 + IntBitLen(n \div 2)

BBitLen(a) == IF a = <<>> THEN 0 ELSE DigitBits * (Len(a) - 1) + IntBitLen(a[Len(a)])

\* the largest x with d * x <= r, given that its bits above b are those of acc
RECURSIVE QDigit(_, _, _, _)
QDigit(r, d, b, acc) ==
    IF b < 0 THEN acc
    ELSE LET x == acc + 2^b
         IN  IF BCmp(BMulSmall(d, x), r) <= 0 THEN QDigit(r, d, b - 1, x)
                                             ELSE QDigit(r, d, b - 1, acc)

\* <<quotient, remainder>> of digits i..Len(n) of n by d (long division)
RECURSIVE BDivModFrom(_, _, _)
BDivModFrom(n, d, i) ==
    IF i > Len(n) THEN <<<<>>, <<>>>>
    ELSE LET p  == BDivModFrom(n, d, i + 1)
             r1 == BTrim(<<n[i]>> \o p[2])
             x  == QDigit(r1, d, DigitBits - 1, 0)
         IN  <<BTrim(<<x>> \o p[1]), BSub(r1, BMulSmall(d, x))>>

BDivMod(n, d) == BDivModFrom(n, d, 1)

(***************************************************************************)
(* Python floats (IEEE binary64), non-negative.                            *)
(***************************************************************************)
FZero == [m |-> <<>>, e |-> 0]

\* (Q + R/D) * 2^e rounded to nearest, ties to even; Q has MantBits bits, R < D
RoundQR(Q, R, D, e) ==
    LET c  == BCmp(BAdd(R, R), D)
        up == c = 1 \/ (c = 0 /\ Q[1] % 2 = 1)
        m  == IF up THEN BAddFrom(Q, <<>>, 1, 1) ELSE Q
    IN  IF BBitLen(m) > MantBits THEN [m |-> BShr(m, 1), e |-> e + 1]
                                 ELSE [m |-> m, e |-> e]

\* P * 2^E rounded to a float
RoundDyadic(P, E) ==
    IF P = <<>> THEN FZero
    ELSE LET s == BBitLen(P) - MantBits
         IN  IF s <= 0 THEN [m |-> BShl(P, -s), e |-> E + s]
             ELSE LET Q == BShr(P, s)
                  IN  RoundQR(Q, BSub(P, BShl(Q, s)), BShl(<<1>>, s), E + s)

DivAt(N, D, k) ==
    BDivMod(IF k >= 0 THEN BShl(N, k) ELSE N, IF k < 0 THEN BShl(D, -k) ELSE D)

\* N / D rounded to a float
RoundRat(N, D) ==
    IF N = <<>> THEN FZero
    ELSE LET k0  == MantBits - (BBitLen(N) - BBitLen(D))
             qr0 == DivAt(N, D, k0)
             k   == IF BBitLen(qr0[1]) > MantBits THEN k0 - 1 ELSE k0
             qr  == IF k = k0 THEN qr0 ELSE DivAt(N, D, k)
         IN  RoundQR(qr[1], qr[2], IF k < 0 THEN BShl(D, -k) ELSE D, -k)

\* float(n) of an integer n >= 0
FromInt(n) == RoundDyadic(BFromInt(n), 0)

\* the float literal or parsed decimal n/d (correctly rounded)
FromRatio(n, d) == RoundRat(BFromInt(n), BFromInt(d))

FCmp(x, y) ==
    IF x.m = <<>> THEN (IF y.m = <<>> THEN 0 ELSE -1)
    ELSE IF y.m = <<>> THEN 1
    ELSE IF x.e < y.e THEN -1
    ELSE IF x.e > y.e THEN 1
    ELSE BCmp(x.m, y.m)

FLess(x, y) == FCmp(x, y) = -1

FLeq(x, y) == FCmp(x, y) <= 0

FMin(x, y) == IF FLess(y, x) THEN y ELSE x

FMax(x, y) == IF FLess(x, y) THEN y ELSE x

FAdd(x, y) ==
    IF x.m = <<>> THEN y
    ELSE IF y.m = <<>> THEN x
    ELSE LET e0 == Min(x.e, y.e)
         IN  RoundDyadic(BAdd(BShl(x.m, x.e - e0), BShl(y.m, y.e - e0)), e0)

\* x - y for x >= y
FSub(x, y) ==
    IF y.m = <<>> THEN x
    ELSE LET e0 == Min(x.e, y.e)
         IN  RoundDyadic(BSub(BShl(x.m, x.e - e0), BShl(y.m, y.e - e0)), e0)

FMul(x, y) == RoundDyadic(BMul(x.m, y.m), x.e + y.e)

\* x / y for y > 0
FDiv(x, y) ==
    IF x.m = <<>> THEN FZero
    ELSE LET q == RoundRat(x.m, y.m) IN [m |-> q.m, e |-> q.e + x.e - y.e]

\* int(x): truncation, for values that fit an integer
FTrunc(x) == IF x.e >= 0 THEN BToInt(BShl(x.m, x.e)) ELSE BToInt(BShr(x.m, -x.e))

\* round(x): to the nearest integer, ties to even
FRound(x) ==
    IF x.e >= 0 THEN BToInt(BShl(x.m, x.e))
    ELSE LET q    == BShr(x.m, -x.e)
             r    == BSub(x.m, BShl(q, -x.e))
             c    == BCmp(BAdd(r, r), BShl(<<1>>, -x.e))
             n    == BToInt(q)
         IN  IF c = 1 \/ (c = 0 /\ n % 2 = 1) THEN n + 1 ELSE n

FOne == FromInt(1)

(***************************************************************************)
(* Program constants of slideshow_animated.py.                             *)
(***************************************************************************)
FPS == 30

AUDIO_INTERVAL == FromRatio(25, 10)

ANIM_DURATION == FromRatio(25, 10)

CYCLE_DURATION == FromInt(5)

TOTAL_DURATION == FromInt(10)

\* original_stroke_dur, the literal 0.8
ORIGINAL_STROKE_DUR == FromRatio(8, 10)

(***************************************************************************)
(* Bounds of the model.                                                    *)
(***************************************************************************)
\* strokes per vector source
MaxStrokes == 2

\* stroke delays are written in the source as k/2 seconds, k in 0..MaxDelayK
MaxDelayK == 3

\* pathLength attributes are in 1..MaxPathLen
MaxPathLen == 1

\* the renderer is queried at j/4 seconds, j in 0..MaxTimeK
MaxTimeK == 11

\* create_audio_track is given total durations of k/10 seconds, k in 1..MaxTotalTenths
MaxTotalTenths == 110

\* tonal_to_numbered is given texts of at most MaxSyllableLen characters
MaxSyllableLen == 3

\* the recordings are k/10 seconds long, k in 1..MaxAssetTenths
MaxAssetTenths == 15

\* generate_video is given at most MaxRecords records
MaxRecords == 2

\* a clip's frame function is queried at k/(SubFrames * FPS) seconds
SubFrames == 4

\* ... for k at most FrameWindow away from the tick of ANIM_DURATION or of
\* CYCLE_DURATION, and at the clip's first and last tick
FrameWindow == 2

VARIABLES
    pc,              \* the step the modelled run is at
    strokes,         \* parse_svg_strokes' list: [delay, path_length] per stroke
    min_delay,       \* get_animation_params' first result
    actual_duration, \* get_animation_params' second result
    time,            \* render_svg_frame's time argument
    rendered,        \* per stroke: stroke_start, stroke_end, progress, dashoffset
    clips,           \* clip id -> what make_frame_func / make_fallback_frame_func closed over
    frame_cache,     \* clip id -> the clip's frame_cache dictionary
    render_calls,    \* clip id -> (t_key -> the number of render_svg_frame calls made for it)
    called,          \* the last call of a frame function: <<clip id, t>>
    returned,        \* the frame that call returned
    audio_path,      \* create_audio_track's argument: the asset, or None
    total_duration,  \* create_audio_track's argument
    audio_t,         \* create_audio_track's loop variable t
    audio_clips,     \* create_audio_track's list clips: the start offset of each entry
    audio_track,     \* create_audio_track's result
    asset_duration,  \* the length of the recordings in AUDIO_DIR (AudioFileClip.duration)
    pinyin_text,     \* the transcription given to tonal_to_numbered / find_audio
    audio_files,     \* the names of the files that exist in AUDIO_DIR
    numbered,        \* tonal_to_numbered's result
    lookups,         \* the paths find_audio has probed, in order
    found,           \* find_audio's result
    records,         \* generate_video's argument
    rec_i,           \* generate_video's loop index
    all_clips,       \* generate_video's list all_clips
    rescaler_calls   \* the stroke lists get_animation_params was called with

animVars == <<strokes, min_delay, actual_duration, time, rendered>>

frameVars == <<clips, frame_cache, render_calls, called, returned>>

audioVars ==
    <<audio_path, total_duration, audio_t, audio_clips, audio_track, asset_duration>>

pinyinVars == <<pinyin_text, audio_files, numbered, lookups, found>>

videoVars == <<records, rec_i, all_clips, rescaler_calls>>

vars == <<pc, animVars, frameVars, audioVars, pinyinVars, videoVars>>

\* Python's None
None == "None, unlike every text, list and number"

(***************************************************************************)
(* Stroke metadata: parse_svg_strokes.                                     *)
(***************************************************************************)
\* float(match.group(1)) of the delay text k/2
ParseDelay(k) == FromRatio(k, 2)

DelayTexts == 0..MaxDelayK

PathLengths == 1..MaxPathLen

\* int(text) of a pathLength attribute: the n-th multiple of the length the
\* source gives as its example
PathLengthUnit == 3333

ParsePathLength(n) == n * PathLengthUnit

StrokeOf(k, len) == [delay |-> ParseDelay(k), path_length |-> ParsePathLength(len)]

Strokes == {StrokeOf(k, len) : k \in DelayTexts, len \in PathLengths}

StrokeLists == UNION {[1..n -> Strokes] : n \in 0..MaxStrokes}

(***************************************************************************)
(* Timeline rescaler: get_animation_params.                                *)
(***************************************************************************)
RECURSIVE MinDelayFrom(_, _)
MinDelayFrom(ss, i) ==
    IF i = Len(ss) THEN ss[i].delay ELSE FMin(ss[i].delay, MinDelayFrom(ss, i + 1))

RECURSIVE MaxDelayFrom(_, _)
MaxDelayFrom(ss, i) ==
    IF i = Len(ss) THEN ss[i].delay ELSE FMax(ss[i].delay, MaxDelayFrom(ss, i + 1))

\* faulty variant: the span of the delays without the last stroke's own duration
get_animation_params_NoStrokeDur(ss) ==
    IF ss = <<>> THEN <<FZero, FOne>>
    ELSE <<MinDelayFrom(ss, 1), FSub(MaxDelayFrom(ss, 1), MinDelayFrom(ss, 1))>>

get_animation_params(ss) ==
    IF ss = <<>> THEN <<FZero, FOne>>
    ELSE LET mn == MinDelayFrom(ss, 1)
             mx == MaxDelayFrom(ss, 1)
         IN  <<mn, FAdd(FSub(mx, mn), ORIGINAL_STROKE_DUR)>>

(***************************************************************************)
(* Frame renderer: render_svg_frame, the part that computes each stroke's  *)
(* reveal parameters.                                                      *)
(***************************************************************************)
ScaleOf(ad) == IF FLess(FZero, ad) THEN FDiv(ANIM_DURATION, ad) ELSE FOne

\* faulty variant: no clamp at the end of the stroke's window
ProgressAt_NoEndClamp(t, stroke_start, stroke_end, scaled_stroke_dur) ==
    IF FLess(t, stroke_start) THEN FZero
    ELSE FDiv(FSub(t, stroke_start), scaled_stroke_dur)

ProgressAt(t, stroke_start, stroke_end, scaled_stroke_dur) ==
    IF FLess(t, stroke_start) THEN FZero
    ELSE IF ~FLess(t, stroke_end) THEN FOne
    ELSE FDiv(FSub(t, stroke_start), scaled_stroke_dur)

\* faulty variant: the offset follows progress instead of what is left of it
DashOffset_OfProgress(max_offset, progress) ==
    FTrunc(FMul(FromInt(max_offset), progress))

\* int(max_offset * (1 - progress))
DashOffset(max_offset, progress) ==
    FTrunc(FMul(FromInt(max_offset), FSub(FOne, progress)))

\* one iteration of the loop over the strokes
StrokeReveal(stroke, t, mn, ad) ==
    LET scale             == ScaleOf(ad)
        adjusted_delay    == FMul(FSub(stroke.delay, mn), scale)
        scaled_stroke_dur == FMul(ORIGINAL_STROKE_DUR, scale)
        stroke_start      == adjusted_delay
        stroke_end        == FAdd(adjusted_delay, scaled_stroke_dur)
        progress          == ProgressAt(t, stroke_start, stroke_end, scaled_stroke_dur)
        max_offset        == stroke.path_length * 2
    IN  [stroke_start |-> stroke_start,
         stroke_end   |-> stroke_end,
         progress     |-> progress,
         max_offset   |-> max_offset,
         dashoffset   |-> DashOffset(max_offset, progress)]

\* the times the renderer is queried at
TimeOf(j) == FromRatio(j, 4)

QueryTimes == {TimeOf(j) : j \in 0..MaxTimeK}

\* The float arithmetic of StrokeReveal is costly to evaluate; it is tabulated
\* once over the arguments the model can pass.
\* the times a clip's frame function is queried at
TickOf(d) == FRound(FMul(d, FromInt(SubFrames * FPS)))

FrameTicks ==
    LET anim  == TickOf(ANIM_DURATION)
        cycle == TickOf(CYCLE_DURATION)
        total == TickOf(TOTAL_DURATION)
    IN  {0, total} \cup (anim - FrameWindow .. anim + FrameWindow)
                   \cup (cycle - FrameWindow .. cycle + FrameWindow)

FrameTimes == {FromRatio(k, SubFrames * FPS) : k \in FrameTicks}

\* faulty variant: the clip time is passed on unclamped
AnimTime_Unclamped(t) == t

\* min(t, ANIM_DURATION)
AnimTime(t) == FMin(t, ANIM_DURATION)

RenderTimes == QueryTimes \cup {AnimTime(t) : t \in FrameTimes}

RevealQueries ==
    {<<StrokeOf(k, len), t, ParseDelay(mn),
       get_animation_params(<<StrokeOf(mn, 1), StrokeOf(mx, 1)>>)[2]>> :
         <<mn, mx, k>> \in {w \in DelayTexts \X DelayTexts \X DelayTexts :
                              w[1] <= w[3] /\ w[3] <= w[2]},
         len \in PathLengths, t \in RenderTimes}

RevealTable == [q \in RevealQueries |-> StrokeReveal(q[1], q[2], q[3], q[4])]

render_svg_frame(ss, t, mn, ad) ==
    [i \in DOMAIN ss |-> RevealTable[<<ss[i], t, mn, ad>>]]

(***************************************************************************)
(* The rescaler and the renderer on their own: any stroke list, then       *)
(* get_animation_params, then render_svg_frame at any sequence of times.   *)
(***************************************************************************)
\* the parts of the state a run does not use
NoAnim ==
    /\ strokes = <<>>
    /\ min_delay = None
    /\ actual_duration = None
    /\ time = None
    /\ rendered = <<>>

NoFrames ==
    /\ clips = <<>>
    /\ frame_cache = <<>>
    /\ render_calls = <<>>
    /\ called = None
    /\ returned = None

NoAudio ==
    /\ audio_path = None
    /\ total_duration = None
    /\ audio_t = None
    /\ audio_clips = <<>>
    /\ audio_track = None
    /\ asset_duration = None

NoPinyin ==
    /\ pinyin_text = None
    /\ audio_files = {}
    /\ numbered = None
    /\ lookups = <<>>
    /\ found = None

NoVideo ==
    /\ records = <<>>
    /\ rec_i = 0
    /\ all_clips = <<>>
    /\ rescaler_calls = <<>>

InitAnim ==
    /\ pc = "parsed"
    /\ strokes \in StrokeLists
    /\ min_delay = None
    /\ actual_duration = None
    /\ time = None
    /\ rendered = <<>>
    /\ NoFrames
    /\ NoAudio
    /\ NoPinyin
    /\ NoVideo

GetAnimationParams ==
    /\ pc = "parsed"
    /\ min_delay' = get_animation_params(strokes)[1]
    /\ actual_duration' = get_animation_params(strokes)[2]
    /\ pc' = "scheduled"
    /\ UNCHANGED <<strokes, time, rendered, frameVars, audioVars, pinyinVars, videoVars>>

RenderSvgFrame(t) ==
    /\ pc \in {"scheduled", "rendered"}
    /\ time' = t
    /\ rendered' = render_svg_frame(strokes, t, min_delay, actual_duration)
    /\ pc' = "rendered"
    /\ UNCHANGED <<strokes, min_delay, actual_duration, frameVars, audioVars, pinyinVars, videoVars>>

NextAnim ==
    \/ GetAnimationParams
    \/ \E t \in QueryTimes : RenderSvgFrame(t)

SpecAnim == InitAnim /\ [][NextAnim]_vars

(***************************************************************************)
(* Frame composition and the frame functions of a clip: compose_frame,     *)
(* make_frame_func, make_fallback_frame_func.                              *)
(*                                                                         *)
(* Texts are sequences of code points; a frame is what compose_frame drew: *)
(* the character image and the captions (None for a caption not drawn).    *)
(***************************************************************************)
Truthy(text) == text # None /\ text # <<>>

compose_frame(char_img, pinyin, english) ==
    [char_img |-> char_img,
     pinyin   |-> IF Truthy(pinyin) THEN pinyin ELSE None,
     english  |-> IF Truthy(english) THEN english ELSE None]

make_fallback_char_image(character) == [glyph |-> character]

\* faulty variant: the transcription is hidden again once the translation appears
ShowPinyin_UntilCycle(t) == ~FLess(t, ANIM_DURATION) /\ FLess(t, CYCLE_DURATION)

\* show_pinyin = t >= ANIM_DURATION
ShowPinyin(t) == ~FLess(t, ANIM_DURATION)

\* show_english = t >= CYCLE_DURATION
ShowEnglish(t) == ~FLess(t, CYCLE_DURATION)

\* t_key = round(t * FPS) / FPS
\* round(t * FPS), the index of the output frame
FrameIndex(t) == FRound(FMul(t, FromInt(FPS)))

FrameKey(t) == FDiv(FromInt(FrameIndex(t)), FromInt(FPS))

FrameKeyTable == [t \in FrameTimes |-> FrameKey(t)]

\* what make_frame_func closes over (svg_content is stood for by the character)
make_frame_func(character, ss, pinyin, english, mn, ad) ==
    [kind |-> "animated", character |-> character, strokes |-> ss,
     pinyin |-> pinyin, english |-> english,
     min_delay |-> mn, actual_duration |-> ad, duration |-> TOTAL_DURATION]

\* what make_fallback_frame_func closes over
make_fallback_frame_func(character, pinyin, english) ==
    [kind |-> "fallback", character |-> character,
     char_img |-> make_fallback_char_image(character),
     pinyin |-> pinyin, english |-> english, duration |-> TOTAL_DURATION]

\* the frame make_frame composes at time t when the cache misses
AnimatedFrame(clip, t) ==
    compose_frame(
        [svg |-> clip.character,
         time |-> AnimTime(t),
         reveal |-> render_svg_frame(clip.strokes, AnimTime(t),
                                     clip.min_delay, clip.actual_duration)],
        IF ShowPinyin(t) THEN clip.pinyin ELSE None,
        IF ShowEnglish(t) THEN clip.english ELSE None)

\* make_fallback_frame_func's make_frame
FallbackFrame(clip, t) ==
    compose_frame(clip.char_img,
                  IF ShowPinyin(t) THEN clip.pinyin ELSE None,
                  IF ShowEnglish(t) THEN clip.english ELSE None)

\* faulty variant: one cache, global to the module, is used by every clip
CacheOf_Shared(c) == 1

\* frame_cache = {} in make_frame_func: the c-th call makes the c-th cache
CacheOf(c) == c

\* frame_cache[t_key] = frame; return frame
CacheStore(c, t_key, frame) ==
    /\ frame_cache' = [frame_cache EXCEPT ![CacheOf(c)] = (t_key :> frame) @@ @]
    /\ render_calls' = [render_calls EXCEPT ![c] =
                           IF t_key \in DOMAIN @
                           THEN [@ EXCEPT ![t_key] = @ + 1]
                           ELSE (t_key :> 1) @@ @]
    /\ returned' = frame

\* faulty variant: the cache is never found to hold a key
InCache_Never(cache, t_key) == FALSE

\* t_key in frame_cache
InCache(cache, t_key) == t_key \in DOMAIN cache

\* if t_key in frame_cache: return frame_cache[t_key]
CacheLookup(c, t, t_key) ==
    IF InCache(frame_cache[CacheOf(c)], t_key)
    THEN /\ returned' = frame_cache[CacheOf(c)][t_key]
         /\ UNCHANGED <<frame_cache, render_calls>>
    ELSE CacheStore(c, t_key, AnimatedFrame(clips[c], t))

\* One call make_frame(t) of clip c's frame function.
MakeFrame(c, t) ==
    /\ pc = "clips"
    /\ called' = <<c, t>>
    /\ IF clips[c].kind = "fallback"
       THEN /\ returned' = FallbackFrame(clips[c], t)
            /\ UNCHANGED <<frame_cache, render_calls>>
       ELSE CacheLookup(c, t, FrameKeyTable[t])
    /\ UNCHANGED <<pc, clips, animVars, audioVars, pinyinVars, videoVars>>

\* the encoder samples a clip at strictly increasing times
SampleFrame(c, t) ==
    /\ called # None => (called[1] = c /\ FLess(called[2], t))
    /\ MakeFrame(c, t)

\* the clips the frame functions are exercised on
CaptionPinyin == <<114, 233, 110>>

CaptionEnglish == <<109, 97, 110>>

ClipCharacter == 20154

ClipStrokeLists ==
    {<<>>, <<StrokeOf(0, 1), StrokeOf(MaxDelayK, 1)>>}

ClipsUnderTest ==
    {make_frame_func(ClipCharacter, ss, CaptionPinyin, en,
                     get_animation_params(ss)[1], get_animation_params(ss)[2]) :
        ss \in ClipStrokeLists, en \in {<<>>, CaptionEnglish}}
    \cup {make_fallback_frame_func(ClipCharacter, CaptionPinyin, en) :
             en \in {<<>>, CaptionEnglish}}

InitFrames ==
    /\ pc = "clips"
    /\ NoAnim
    /\ clips \in [{1} -> ClipsUnderTest]
    /\ frame_cache = [c \in {1} |-> <<>>]
    /\ render_calls = [c \in {1} |-> <<>>]
    /\ called = None
    /\ returned = None
    /\ NoAudio
    /\ NoPinyin
    /\ NoVideo

\* a clip's frame function called at any times, in any order
NextFrames == \E c \in DOMAIN clips, t \in FrameTimes : MakeFrame(c, t)

SpecFrames == InitFrames /\ [][NextFrames]_vars

\* a clip's frame function sampled at strictly increasing times
NextSample == \E c \in DOMAIN clips, t \in FrameTimes : SampleFrame(c, t)

SpecSample == InitFrames /\ [][NextSample]_vars

\* Two clips of different characters, their frame functions called in any
\* interleaving, at the start, around ANIM_DURATION and at CYCLE_DURATION.
OtherCharacter == 21475

TwoClipTimes ==
    {FromRatio(k, SubFrames * FPS) :
        k \in {0, TickOf(ANIM_DURATION) - 1, TickOf(ANIM_DURATION),
               TickOf(CYCLE_DURATION)}}

TwoClipLists ==
    {<<make_frame_func(ClipCharacter, ss, CaptionPinyin, en,
                       get_animation_params(ss)[1], get_animation_params(ss)[2]),
       make_frame_func(OtherCharacter, <<StrokeOf(0, 1)>>, py, CaptionEnglish,
                       get_animation_params(<<StrokeOf(0, 1)>>)[1],
                       get_animation_params(<<StrokeOf(0, 1)>>)[2])>> :
        ss \in ClipStrokeLists \ {<<>>}, en \in {<<>>, CaptionEnglish},
        py \in {CaptionPinyin, <<109, 97>>}}

InitTwoClips ==
    /\ pc = "clips"
    /\ NoAnim
    /\ clips \in TwoClipLists
    /\ frame_cache = [c \in {1, 2} |-> <<>>]
    /\ render_calls = [c \in {1, 2} |-> <<>>]
    /\ called = None
    /\ returned = None
    /\ NoAudio
    /\ NoPinyin
    /\ NoVideo

NextTwoClips == \E c \in DOMAIN clips, t \in TwoClipTimes : MakeFrame(c, t)

SpecTwoClips == InitTwoClips /\ [][NextTwoClips]_vars

(***************************************************************************)
(* Audio looper: create_audio_track, its loop taken one iteration at a     *)
(* time.                                                                   *)
(***************************************************************************)
AudioAsset == "asset.mp3"

\* faulty variant: the loop also takes an offset equal to the total duration
AudioLoopCond_Inclusive(t, total) == FLeq(t, total)

\* while t < total_duration
AudioLoopCond(t, total) == FLess(t, total)

\* if not audio_path: return None; otherwise clips = [], t = 0
AudioEnter ==
    /\ pc = "audio_call"
    /\ IF audio_path = None
       THEN /\ pc' = "audio_done"
            /\ UNCHANGED <<audio_t, audio_clips, audio_track>>
       ELSE /\ pc' = "audio_loop"
            /\ audio_t' = FZero
            /\ audio_clips' = <<>>
            /\ UNCHANGED audio_track
    /\ UNCHANGED <<audio_path, total_duration, asset_duration,
                   animVars, frameVars, pinyinVars, videoVars>>

\* clips.append(audio.with_start(t)); t += AUDIO_INTERVAL
AudioLoop ==
    /\ pc = "audio_loop"
    /\ AudioLoopCond(audio_t, total_duration)
    /\ audio_clips' = Append(audio_clips, audio_t)
    /\ audio_t' = FAdd(audio_t, AUDIO_INTERVAL)
    /\ UNCHANGED <<pc, audio_path, total_duration, audio_track, asset_duration,
                   animVars, frameVars, pinyinVars, videoVars>>

\* return CompositeAudioClip(clips)
AudioReturn ==
    /\ pc = "audio_loop"
    /\ ~AudioLoopCond(audio_t, total_duration)
    /\ audio_track' = audio_clips
    /\ pc' = "audio_done"
    /\ UNCHANGED <<audio_path, total_duration, audio_t, audio_clips, asset_duration,
                   animVars, frameVars, pinyinVars, videoVars>>

TotalDurations == {FromRatio(k, 10) : k \in 1..MaxTotalTenths}

InitAudio ==
    /\ pc = "audio_call"
    /\ NoAnim
    /\ NoFrames
    /\ audio_path \in {None, AudioAsset}
    /\ total_duration \in TotalDurations
    /\ audio_t = None
    /\ audio_clips = <<>>
    /\ audio_track = None
    /\ asset_duration = None
    /\ NoPinyin
    /\ NoVideo

NextAudio == AudioEnter \/ AudioLoop \/ AudioReturn

SpecAudio == InitAudio /\ [][NextAudio]_vars

\* the same loop as a function, for the callers that need only its result
RECURSIVE AudioOffsetsFrom(_, _)
AudioOffsetsFrom(t, total) ==
    IF AudioLoopCond(t, total)
    THEN <<t>> \o AudioOffsetsFrom(FAdd(t, AUDIO_INTERVAL), total)
    ELSE <<>>

\* faulty variant: no audio track is ever composed
create_audio_track_Silent(path, total) == None

create_audio_track(path, total) ==
    IF path = None THEN None ELSE AudioOffsetsFrom(FZero, total)

(***************************************************************************)
(* Pronunciation resolver: tonal_to_numbered and find_audio.  A text is a  *)
(* sequence of Unicode code points.                                        *)
(***************************************************************************)
\* _TONE_CHARS, as <<tone-marked vowel, base vowel, tone>>
ToneCharEntries ==
    {<<257, 97, 1>>, <<225, 97, 2>>, <<462, 97, 3>>, <<224, 97, 4>>,
     <<275, 101, 1>>, <<233, 101, 2>>, <<283, 101, 3>>, <<232, 101, 4>>,
     <<299, 105, 1>>, <<237, 105, 2>>, <<464, 105, 3>>, <<236, 105, 4>>,
     <<333, 111, 1>>, <<243, 111, 2>>, <<466, 111, 3>>, <<242, 111, 4>>,
     <<363, 117, 1>>, <<250, 117, 2>>, <<468, 117, 3>>, <<249, 117, 4>>,
     <<470, 252, 1>>, <<472, 252, 2>>, <<474, 252, 3>>, <<476, 252, 4>>}

TONE_CHARS ==
    [ch \in {e[1] : e \in ToneCharEntries} |->
        LET e == CHOOSE e \in ToneCharEntries : e[1] = ch IN <<e[2], e[3]>>]

\* str.strip(): the whitespace at both ends is dropped
IsSpace(ch) == ch \in {9, 10, 11, 12, 13, 32}

RECURSIVE LStrip(_)
LStrip(text) ==
    IF text # <<>> /\ IsSpace(Head(text)) THEN LStrip(Tail(text)) ELSE text

RECURSIVE RStrip(_)
RStrip(text) ==
    IF text # <<>> /\ IsSpace(text[Len(text)])
    THEN RStrip(SubSeq(text, 1, Len(text) - 1))
    ELSE text

Strip(text) == RStrip(LStrip(text))

\* str.lower() on ASCII, Latin-1 and the capital tone-marked vowels
LowerChar(ch) ==
    IF ch \in 65..90 \/ (ch \in 192..222 /\ ch # 215) THEN ch + 32
    ELSE IF ch \in {256, 274, 282, 298, 332, 362} THEN ch + 1
    ELSE IF ch \in {461, 463, 465, 467, 469, 471, 473, 475} THEN ch + 1
    ELSE ch

Lower(text) == [i \in DOMAIN text |-> LowerChar(text[i])]

\* canonical composition of a letter with a following combining acute accent
\* (U+0301), as <<letter, mark, composed>>
Compositions ==
    {<<97, 769, 225>>, <<101, 769, 233>>, <<105, 769, 237>>, <<111, 769, 243>>,
     <<117, 769, 250>>, <<252, 769, 472>>, <<109, 769, 7743>>, <<110, 769, 324>>}

Composable(a, b) == \E c \in Compositions : c[1] = a /\ c[2] = b

Compose(a, b) == (CHOOSE c \in Compositions : c[1] = a /\ c[2] = b)[3]

\* faulty variant: the text is left as it was written
NFC_Identity(text) == text

\* unicodedata.normalize("NFC", text): a mark composes with the letter right
\* before it when a composed form exists, otherwise it stays
RECURSIVE NFCFrom(_, _, _)
NFCFrom(text, i, out) ==
    IF i > Len(text) THEN out
    ELSE IF out # <<>> /\ Composable(out[Len(out)], text[i])
         THEN NFCFrom(text, i + 1,
                      [out EXCEPT ![Len(out)] = Compose(out[Len(out)], text[i])])
         ELSE NFCFrom(text, i + 1, Append(out, text[i]))

NFC(text) == NFCFrom(text, 1, <<>>)

\* pinyin.strip().lower(), NFC-normalised
Normalise(pinyin) == NFC(Lower(Strip(pinyin)))

\* the loop's variable tone after the characters from i on: the last tone mark wins
RECURSIVE ToneFrom(_, _, _)
ToneFrom(text, i, tone) ==
    IF i > Len(text) THEN tone
    ELSE ToneFrom(text, i + 1,
                  IF text[i] \in DOMAIN TONE_CHARS THEN TONE_CHARS[text[i]][2] ELSE tone)

\* str(tone)
DigitChar(tone) == 48 + tone

tonal_to_numbered(pinyin) ==
    LET text == Normalise(pinyin)
        result == [i \in DOMAIN text |->
                      IF text[i] \in DOMAIN TONE_CHARS
                      THEN TONE_CHARS[text[i]][1]
                      ELSE text[i]]
    IN  Append(result, DigitChar(ToneFrom(text, 1, 5)))

\* ".mp3"
Mp3 == <<46, 109, 112, 51>>

\* faulty variant: the retry without the tone digit is made for every tone
EndsWith5_Always(name) == TRUE

\* numbered.endswith("5")
EndsWith5(name) == name # <<>> /\ name[Len(name)] = 53

\* find_audio, with the paths it probes: [lookups, found]
find_audio(pinyin, files) ==
    LET name == tonal_to_numbered(pinyin)
        path == name \o Mp3
        path2 == SubSeq(name, 1, Len(name) - 1) \o Mp3
    IN  IF path \in files THEN [lookups |-> <<path>>, found |-> path]
        ELSE IF EndsWith5(name)
             THEN [lookups |-> <<path, path2>>,
                   found |-> IF path2 \in files THEN path2 ELSE None]
             ELSE [lookups |-> <<path>>, found |-> None]

TonalToNumbered ==
    /\ pc = "pinyin_call"
    /\ numbered' = tonal_to_numbered(pinyin_text)
    /\ pc' = "numbered"
    /\ UNCHANGED <<pinyin_text, audio_files, lookups, found,
                   animVars, frameVars, audioVars, videoVars>>

FindAudio ==
    /\ pc \in {"pinyin_call", "numbered"}
    /\ numbered' = tonal_to_numbered(pinyin_text)
    /\ lookups' = find_audio(pinyin_text, audio_files).lookups
    /\ found' = find_audio(pinyin_text, audio_files).found
    /\ pc' = "looked_up"
    /\ UNCHANGED <<pinyin_text, audio_files, animVars, frameVars, audioVars, videoVars>>

\* the characters the texts are written with: space, m, a, a-acute, a-caron,
\* A-acute, the combining acute accent, u-diaeresis
PinyinChars == {32, 109, 97, 225, 462, 193, 769, 252}

PinyinTexts == UNION {[1..n -> PinyinChars] : n \in 0..MaxSyllableLen}

\* the file names find_audio could be looking for, and the one for the
\* neutral tone of the same syllable
AudioNamesFor(pinyin) ==
    LET name == tonal_to_numbered(pinyin)
        stem == SubSeq(name, 1, Len(name) - 1)
    IN  {name \o Mp3, stem \o Mp3, Append(stem, 53) \o Mp3}

InitPinyin ==
    /\ pc = "pinyin_call"
    /\ NoAnim
    /\ NoFrames
    /\ NoAudio
    /\ NoVideo
    /\ pinyin_text \in PinyinTexts
    /\ audio_files \in SUBSET AudioNamesFor(pinyin_text)
    /\ numbered = None
    /\ lookups = <<>>
    /\ found = None

NextPinyin == TonalToNumbered \/ FindAudio

SpecPinyin == InitPinyin /\ [][NextPinyin]_vars

(***************************************************************************)
(* Batch driver: slides_for_card and generate_video, the loop of           *)
(* generate_video taken one record at a time.                              *)
(***************************************************************************)
\* ANIM_SVG_DIR: one character with two animated strokes, one whose file has
\* no animated stroke; every other character has no file
SvgDir ==
    (20154 :> <<StrokeOf(0, 1), StrokeOf(MaxDelayK, 1)>>) @@ (21475 :> <<>>)

SvgFound(character) == character \in DOMAIN SvgDir

\* AUDIO_DIR: "ren2.mp3" and "ma.mp3"
AudioDir == {<<114, 101, 110, 50>> \o Mp3, <<109, 97>> \o Mp3}

\* the transcriptions of the records: empty, "rén", "ma" (found without its
\* tone digit), "nǐ" (no recording)
RecordPinyins == {<<>>, CaptionPinyin, <<109, 97>>, <<110, 464>>}

RecordCharacters == {20154, 21475, 40860}

\* a record has the columns of its file; the transcription column may be absent
Records ==
    [character : RecordCharacters, pinyin : RecordPinyins, english : {CaptionEnglish}]
    \cup [character : RecordCharacters, english : {CaptionEnglish}]

\* rec.get(key, default)
RecGet(rec, key, default) == IF key \in DOMAIN rec THEN rec[key] ELSE default

RecordLists == UNION {[1..n -> Records] : n \in 0..MaxRecords}

\* the calls slides_for_card makes to get_animation_params
RescalerCallsFor(character) ==
    IF SvgFound(character) THEN <<SvgDir[character]>> ELSE <<>>

\* the clip slides_for_card returns in its one-element list
slides_for_card(character, pinyin, english, files) ==
    LET ss == SvgDir[character]
        params == get_animation_params(ss)
        frames == IF SvgFound(character)
                  THEN make_frame_func(character, ss, pinyin, english,
                                       params[1], params[2])
                  ELSE make_fallback_frame_func(character, pinyin, english)
        audio_found == find_audio(pinyin, files).found
    IN  <<[make_frame |-> frames,
           duration   |-> frames.duration,
           fps        |-> FPS,
           audio      |-> IF audio_found = None
                          THEN None
                          ELSE create_audio_track(audio_found, frames.duration)]>>

\* headers = list(records[0].keys()) raises IndexError for an empty list
VideoEnter ==
    /\ pc = "video_call"
    /\ IF records = <<>>
       THEN pc' = "video_error" /\ UNCHANGED <<rec_i, all_clips>>
       ELSE pc' = "video_loop" /\ rec_i' = 1 /\ all_clips' = <<>>
    /\ UNCHANGED <<records, rescaler_calls, audio_files, pinyin_text, numbered,
                   lookups, found, animVars, frameVars, audioVars>>

\* faulty variant: no record is skipped
SkipsRecord_Never(pinyin) == FALSE

\* if not pinyin: continue
SkipsRecord(pinyin) == ~Truthy(pinyin)

VideoSkip ==
    /\ pc = "video_loop"
    /\ rec_i <= Len(records)
    /\ SkipsRecord(RecGet(records[rec_i], "pinyin", <<>>))
    /\ rec_i' = rec_i + 1
    /\ UNCHANGED <<pc, records, all_clips, rescaler_calls, audio_files, pinyin_text,
                   numbered, lookups, found, animVars, frameVars, audioVars>>

\* all_clips.extend(slides_for_card(character, pinyin, english))
VideoCard ==
    /\ pc = "video_loop"
    /\ rec_i <= Len(records)
    /\ ~SkipsRecord(RecGet(records[rec_i], "pinyin", <<>>))
    /\ LET rec == records[rec_i]
       IN  /\ all_clips' = all_clips \o
                  slides_for_card(rec.character, RecGet(rec, "pinyin", <<>>),
                                  RecGet(rec, "english", <<>>), audio_files)
           /\ rescaler_calls' = rescaler_calls \o RescalerCallsFor(rec.character)
    /\ rec_i' = rec_i + 1
    /\ UNCHANGED <<pc, records, audio_files, pinyin_text, numbered, lookups, found,
                   animVars, frameVars, audioVars>>

\* the loop is over: concatenate_videoclips(all_clips)
VideoConcat ==
    /\ pc = "video_loop"
    /\ rec_i > Len(records)
    /\ pc' = "concat"
    /\ UNCHANGED <<videoVars, pinyinVars, animVars, frameVars, audioVars>>

\* final = concatenate_videoclips(all_clips, method="compose") and
\* final.write_videofile(...): moviepy takes the largest width and height of
\* the clips, which raises ValueError when there is no clip
VideoWrite ==
    /\ pc = "concat"
    /\ pc' = IF all_clips = <<>> THEN "video_error" ELSE "written"
    /\ UNCHANGED <<videoVars, pinyinVars, animVars, frameVars, audioVars>>

InitVideo ==
    /\ pc = "video_call"
    /\ NoAnim
    /\ NoFrames
    /\ NoAudio
    /\ pinyin_text = None
    /\ audio_files = AudioDir
    /\ numbered = None
    /\ lookups = <<>>
    /\ found = None
    /\ records \in RecordLists
    /\ rec_i = 0
    /\ all_clips = <<>>
    /\ rescaler_calls = <<>>

NextVideo == VideoEnter \/ VideoSkip \/ VideoCard \/ VideoConcat \/ VideoWrite

SpecVideo == InitVideo /\ [][NextVideo]_vars

(***************************************************************************)
(* slideshow.py: the six slides of a card, slides_for_card with make_clip. *)
(* Its tonal_to_numbered and find_audio are those of slideshow_animated.py.*)
(***************************************************************************)
SLIDE_DURATION == FromInt(1)

make_frame_char(character) == [shows |-> "char", character |-> character]

make_frame_char_pinyin(character, pinyin) ==
    [shows |-> "char_pinyin", character |-> character, pinyin |-> pinyin]

make_frame_all(character, pinyin, english) ==
    [shows |-> "all", character |-> character, pinyin |-> pinyin, english |-> english]

\* make_clip; audio_file is its audio_path, audio_duration is
\* AudioFileClip(audio_path).duration
make_clip(frame, duration, audio_file, audio_duration) ==
    [frame    |-> frame,
     duration |-> IF audio_file # None /\ FLess(duration, audio_duration)
                  THEN audio_duration
                  ELSE duration,
     audio    |-> audio_file]

six_slides_for_card(character, pinyin, english, files, audio_duration) ==
    LET audio == find_audio(pinyin, files).found
        f_char == make_frame_char(character)
        f_char_py == make_frame_char_pinyin(character, pinyin)
        f_all == make_frame_all(character, pinyin, english)
    IN  <<make_clip(f_char, SLIDE_DURATION, None, audio_duration),
          make_clip(f_char, SLIDE_DURATION, audio, audio_duration),
          make_clip(f_char_py, SLIDE_DURATION, None, audio_duration),
          make_clip(f_all, SLIDE_DURATION, None, audio_duration),
          make_clip(f_all, SLIDE_DURATION, audio, audio_duration),
          make_clip(f_all, SLIDE_DURATION, None, audio_duration)>>

\* all_clips.extend(slides_for_card(character, pinyin, english)) for one card
SlidesForCard ==
    /\ pc = "slides_call"
    /\ all_clips' = all_clips \o
           six_slides_for_card(records[1].character, records[1].pinyin,
                               records[1].english, audio_files, asset_duration)
    /\ pc' = "slides_done"
    /\ UNCHANGED <<records, rec_i, rescaler_calls, pinyinVars, animVars, frameVars,
                   audioVars>>

AssetDurations == {FromRatio(k, 10) : k \in 1..MaxAssetTenths}

InitSlides ==
    /\ pc = "slides_call"
    /\ NoAnim
    /\ NoFrames
    /\ audio_path = None
    /\ total_duration = None
    /\ audio_t = None
    /\ audio_clips = <<>>
    /\ audio_track = None
    /\ asset_duration \in AssetDurations
    /\ pinyin_text = None
    /\ audio_files = AudioDir
    /\ numbered = None
    /\ lookups = <<>>
    /\ found = None
    /\ records \in [{1} -> [character : RecordCharacters,
                            pinyin : RecordPinyins \ {<<>>},
                            english : {CaptionEnglish}]]
    /\ rec_i = 0
    /\ all_clips = <<>>
    /\ rescaler_calls = <<>>

NextSlides == SlidesForCard

SpecSlides == InitSlides /\ [][NextSlides]_vars

(***************************************************************************)
(* Claims about the rescaler and the renderer (under SpecAnim).            *)
(***************************************************************************)
DistinctDelays(ss) ==
    \A i, j \in DOMAIN ss : i # j => ss[i].delay # ss[j].delay

\* the strokes with the largest delay
IsLastStroke(ss, i) == \A j \in DOMAIN ss : FLeq(ss[j].delay, ss[i].delay)

FAbsDiff(x, y) == IF FLess(x, y) THEN FSub(y, x) ELSE FSub(x, y)

\* the spec's floating tolerance, 1e-6
Tolerance == FromRatio(1, 1000000)

\* C1 as stated: for a non-empty stroke list with distinct delays, the rescaled
\* end of the stroke with the largest delay equals ANIM_DURATION and no
\* stroke's rescaled end exceeds ANIM_DURATION.
C1_LastEndIsAnimDuration ==
    (pc = "rendered" /\ strokes # <<>> /\ DistinctDelays(strokes)) =>
        \A i \in DOMAIN strokes :
            /\ IsLastStroke(strokes, i) => rendered[i].stroke_end = ANIM_DURATION
            /\ FLeq(rendered[i].stroke_end, ANIM_DURATION)

\* C1 (amended): for a non-empty stroke list with distinct delays, the rescaled
\* end of the stroke with the largest delay is within the floating tolerance
\* 1e-6 of ANIM_DURATION, and no stroke's rescaled end exceeds ANIM_DURATION by
\* more than that tolerance.
C1_LastEndNearAnimDuration ==
    (pc = "rendered" /\ strokes # <<>> /\ DistinctDelays(strokes)) =>
        \A i \in DOMAIN strokes :
            /\ IsLastStroke(strokes, i) =>
                   FLeq(FAbsDiff(rendered[i].stroke_end, ANIM_DURATION), Tolerance)
            /\ FLeq(rendered[i].stroke_end, FAdd(ANIM_DURATION, Tolerance))

\* C1 witness: two strokes with distinct delays have been rendered and the last
\* stroke's rescaled end is off ANIM_DURATION by a rounding error.
C1_Witness ==
    /\ pc = "rendered"
    /\ Len(strokes) = 2
    /\ DistinctDelays(strokes)
    /\ \E i \in DOMAIN strokes :
           /\ IsLastStroke(strokes, i)
           /\ rendered[i].stroke_end # ANIM_DURATION
           /\ FLeq(FAbsDiff(rendered[i].stroke_end, ANIM_DURATION), Tolerance)

\* C2: every stroke's progress is in [0, 1], is 0 before the stroke's rescaled
\* start and exactly 1 at or after its rescaled end, and does not decrease from
\* one query to a query at a later or equal time.
C2_ProgressBounds ==
    pc = "rendered" =>
        \A i \in DOMAIN strokes :
            /\ FLeq(FZero, rendered[i].progress)
            /\ FLeq(rendered[i].progress, FOne)
            /\ FLess(time, rendered[i].stroke_start) => rendered[i].progress = FZero
            /\ FLeq(rendered[i].stroke_end, time) => rendered[i].progress = FOne

C2_ProgressStep ==
    (pc = "rendered" /\ pc' = "rendered" /\ FLeq(time, time')) =>
        \A i \in DOMAIN strokes : FLeq(rendered[i].progress, rendered'[i].progress)

C2_ProgressMonotoneBounded == [](C2_ProgressBounds) /\ [][C2_ProgressStep]_vars

\* C2 witness: a stroke is rendered part-way through its window, after having
\* started.
C2_Witness ==
    /\ pc = "rendered"
    /\ \E i \in DOMAIN strokes :
           /\ FLess(FZero, rendered[i].progress)
           /\ FLess(rendered[i].progress, FOne)
           /\ FLess(rendered[i].stroke_start, time)
           /\ FLess(FZero, rendered[i].stroke_start)

(***************************************************************************)
(* Claims about a clip's frame functions (under SpecFrames, SpecSample).   *)
(***************************************************************************)
ShowsPinyin(frame) == frame.pinyin # None

ShowsEnglish(frame) == frame.english # None

\* C3 as stated: whatever the order of the calls, the frame an animated clip's
\* frame function returns for t shows the phonetic transcription exactly when
\* t >= ANIM_DURATION and the translation exactly when t >= CYCLE_DURATION.
C3_CaptionsFollowTime ==
    (called # None /\ clips[called[1]].kind = "animated") =>
        /\ ShowsPinyin(returned) <=> ~FLess(called[2], ANIM_DURATION)
        /\ clips[called[1]].english # <<>> =>
               (ShowsEnglish(returned) <=> ~FLess(called[2], CYCLE_DURATION))

\* C4: sampled at strictly increasing times, a clip's frame function never
\* hides a caption it has shown, and never shows the translation without the
\* phonetic transcription.
C4_CaptionStep ==
    (called # None /\ called' # None) =>
        /\ ShowsPinyin(returned) => ShowsPinyin(returned')
        /\ ShowsEnglish(returned) => ShowsEnglish(returned')

C4_CaptionsMonotone ==
    /\ [](called # None => (ShowsEnglish(returned) => ShowsPinyin(returned)))
    /\ [][C4_CaptionStep]_vars

\* C4 witness: after frames without captions, an animated clip returns a frame
\* with both captions.
C4_Witness ==
    /\ called # None
    /\ clips[called[1]].kind = "animated"
    /\ ShowsPinyin(returned) /\ ShowsEnglish(returned)
    /\ \E k \in DOMAIN frame_cache[called[1]] :
           ~ShowsPinyin(frame_cache[called[1]][k])

(***************************************************************************)
(* Claims about the audio looper (under SpecAudio).                        *)
(***************************************************************************)
\* C5: for a resolvable asset and a total duration > 0, the start offsets are
\* strictly increasing from 0 in steps of exactly AUDIO_INTERVAL, each is below
\* the total duration, none that would fit is missing (4 entries for the 10 s
\* clip), and the loop terminates: every iteration adds one entry and moves t
\* strictly forward, and the entries are distinct multiples of AUDIO_INTERVAL
\* below the total duration, so only finitely many iterations can follow.
C5_OffsetsSoFar ==
    \A i \in DOMAIN audio_clips :
        /\ audio_clips[i] = FMul(FromInt(i - 1), AUDIO_INTERVAL)
        /\ FLess(audio_clips[i], total_duration)
        /\ i > 1 => /\ FLess(audio_clips[i - 1], audio_clips[i])
                    /\ FSub(audio_clips[i], audio_clips[i - 1]) = AUDIO_INTERVAL

C5_OffsetsAtReturn ==
    (pc = "audio_done" /\ audio_path # None) =>
        /\ audio_track = audio_clips
        /\ Len(audio_track) >= 1
        /\ audio_track[1] = FZero
        /\ ~FLess(FMul(FromInt(Len(audio_track)), AUDIO_INTERVAL), total_duration)
        /\ total_duration = TOTAL_DURATION => Len(audio_track) = 4

C5_LoopStep ==
    (pc = "audio_loop" /\ pc' = "audio_loop") =>
        /\ FLess(audio_t, audio_t')
        /\ Len(audio_clips') = Len(audio_clips) + 1
        /\ audio_t' = FMul(FromInt(Len(audio_clips')), AUDIO_INTERVAL)

C5_AudioSchedule ==
    /\ [](C5_OffsetsSoFar /\ C5_OffsetsAtReturn)
    /\ [][C5_LoopStep]_vars

\* C5 witness: the track of the 10 s clip has been returned with 4 entries.
C5_Witness ==
    /\ pc = "audio_done"
    /\ audio_path # None
    /\ total_duration = TOTAL_DURATION
    /\ Len(audio_track) = 4

(***************************************************************************)
(* Claims about the pronunciation resolver (under SpecPinyin).             *)
(***************************************************************************)
ToneMarkedVowels == {e[1] : e \in ToneCharEntries}

PlainVowels == {e[2] : e \in ToneCharEntries}

\* the positions of the tone marks written in a text: a tone-marked vowel in
\* either case, or a combining acute accent
Diacritics(text) ==
    {i \in DOMAIN text : LowerChar(text[i]) \in ToneMarkedVowels \/ text[i] = 769}

\* the tone a written mark gives its vowel; 0 for an accent that is on no vowel
WrittenTone(text, i) ==
    IF LowerChar(text[i]) \in ToneMarkedVowels
    THEN (CHOOSE e \in ToneCharEntries : e[1] = LowerChar(text[i]))[3]
    ELSE IF i > 1 /\ LowerChar(text[i - 1]) \in PlainVowels THEN 2 ELSE 0

\* C6: the result is the normalised text with every tone-marked vowel replaced
\* by its base vowel, followed by exactly one digit 1..5; it holds no
\* tone-marked vowel; for a syllable (at most one tone mark written) the digit
\* is the tone of the marked vowel (2 for the acute accent), and 5 when no
\* vowel is marked.
C6_NumberedForm ==
    pc \in {"numbered", "looked_up"} =>
        LET text == Normalise(pinyin_text)
            marks == Diacritics(pinyin_text)
            digit == numbered[Len(numbered)]
        IN  /\ Len(numbered) = Len(text) + 1
            /\ digit \in 49..53
            /\ \A i \in DOMAIN text :
                   /\ numbered[i] \notin ToneMarkedVowels
                   /\ numbered[i] = IF text[i] \in ToneMarkedVowels
                                    THEN (CHOOSE e \in ToneCharEntries : e[1] = text[i])[2]
                                    ELSE text[i]
            /\ marks = {} => digit = 53
            /\ \A i \in marks :
                   marks = {i} =>
                       /\ digit = IF WrittenTone(pinyin_text, i) = 0
                                  THEN 53
                                  ELSE 48 + WrittenTone(pinyin_text, i)
                       /\ \A j \in DOMAIN text :
                              ~(j > 1 /\ numbered[j] = 769 /\ numbered[j - 1] \in PlainVowels)

\* C6 witness: "má", written with a combining accent, has become "ma2".
C6_Witness ==
    /\ pc = "numbered"
    /\ pinyin_text = <<109, 97, 769>>
    /\ numbered = <<109, 97, 50>>

\* C7: the numbered form is looked up first; the name without the tone digit
\* is looked up exactly when that missed and the digit is 5; the result is the
\* first looked-up file that exists, or None when none does; for tones 1-4
\* nothing but the numbered form is looked up.
C7_LookupOrder ==
    pc = "looked_up" =>
        LET first == numbered \o Mp3
            second == SubSeq(numbered, 1, Len(numbered) - 1) \o Mp3
            neutral == numbered[Len(numbered)] = 53
            hits == {i \in DOMAIN lookups : lookups[i] \in audio_files}
        IN  /\ Len(lookups) \in {1, 2}
            /\ lookups[1] = first
            /\ Len(lookups) = 2 <=> (first \notin audio_files /\ neutral)
            /\ Len(lookups) = 2 => lookups[2] = second
            /\ ~neutral => lookups = <<first>>
            /\ hits = {} => found = None
            /\ \A i \in hits : (\A j \in hits : i <= j) => lookups[i] = found

\* C7 witness: a neutral-tone syllable was found under the name without the digit.
C7_Witness ==
    /\ pc = "looked_up"
    /\ Len(lookups) = 2
    /\ lookups[2] \in audio_files
    /\ lookups[2] = found

(***************************************************************************)
(* Claims about the batch driver (under SpecVideo).                        *)
(***************************************************************************)
\* the records the loop has passed
RecordsDone == SubSeq(records, 1, rec_i - 1)

HasPinyin(rec) == "pinyin" \in DOMAIN rec /\ rec.pinyin # <<>>

\* C8 as stated: for a character whose vector source is found but holds no
\* animated stroke, the rescaler is not called and the clip comes from the
\* fallback frame function.
C8_ZeroStrokesFallBack ==
    /\ \A i \in DOMAIN rescaler_calls : rescaler_calls[i] # <<>>
    /\ \A i \in DOMAIN all_clips :
           LET character == all_clips[i].make_frame.character
           IN  (SvgFound(character) /\ SvgDir[character] = <<>>) =>
                   all_clips[i].make_frame.kind = "fallback"

\* C9: the clips handed to concatenation are, in input order, one for each
\* record whose transcription is neither empty nor missing, and none for the
\* others; so it is after every iteration of the loop.
C9_OneClipPerTranscribedRecord ==
    pc \in {"video_loop", "concat"} =>
        LET kept == SelectSeq(RecordsDone, HasPinyin)
        IN  /\ pc = "concat" => rec_i = Len(records) + 1
            /\ Len(all_clips) = Len(kept)
            /\ \A i \in DOMAIN kept :
                   /\ all_clips[i].make_frame.character = kept[i].character
                   /\ all_clips[i].make_frame.pinyin = kept[i].pinyin
                   /\ all_clips[i].make_frame.english = kept[i].english

\* C9 witness: two records went in, the first with an empty transcription, and
\* one clip is handed to concatenation.
C9_Witness ==
    /\ pc = "concat"
    /\ Len(records) = 2
    /\ RecGet(records[1], "pinyin", <<>>) = <<>>
    /\ Len(all_clips) = 1
    /\ all_clips[1].make_frame.character = records[2].character

\* a recording exists under a name find_audio is to try
AudioResolves(pinyin) ==
    \/ tonal_to_numbered(pinyin) \o Mp3 \in audio_files
    \/ /\ ToneFrom(Normalise(pinyin), 1, 5) = 5
       /\ SubSeq(tonal_to_numbered(pinyin), 1, Len(tonal_to_numbered(pinyin)) - 1)
              \o Mp3 \in audio_files

\* C10: every record with a transcription gives exactly one clip of duration
\* TOTAL_DURATION, whether or not its vector source and its recording exist;
\* the clip's frames come from the fallback exactly when the vector source is
\* missing, and it has an audio track exactly when the recording resolves.
C10_ClipOf(clip) ==
    /\ clip.duration = TOTAL_DURATION
    /\ clip.make_frame.kind \in {"animated", "fallback"}
    /\ clip.make_frame.kind = "fallback" <=> ~SvgFound(clip.make_frame.character)
    /\ clip.audio # None <=> AudioResolves(clip.make_frame.pinyin)
    /\ clip.audio # None => clip.audio = AudioOffsetsFrom(FZero, TOTAL_DURATION)

C10_CardStep ==
    (pc = "video_loop" /\ rec_i' = rec_i + 1 /\ HasPinyin(records[rec_i])) =>
        /\ pc' = "video_loop"
        /\ Len(all_clips') = Len(all_clips) + 1

C10_OneClipInEveryCase ==
    /\ [](\A i \in DOMAIN all_clips : C10_ClipOf(all_clips[i]))
    /\ [][C10_CardStep]_vars

\* C10 witness: a clip with animated frames and no audio, and a clip with
\* fallback frames and audio, have been made.
C10_Witness ==
    /\ Len(all_clips) = 2
    /\ all_clips[1].make_frame.kind = "animated" /\ all_clips[1].audio = None
    /\ all_clips[2].make_frame.kind = "fallback" /\ all_clips[2].audio # None

(***************************************************************************)
(* Claims about the clamped render time (under SpecFrames).                *)
(***************************************************************************)
\* a call of make_frame that rendered: the cache missed
Rendered == render_calls' # render_calls

\* C11 as stated: whenever an animated clip's frame function renders for a
\* clip time t >= ANIM_DURATION, it queries the renderer at ANIM_DURATION, and
\* there every stroke has progress 1 and dash offset 0.
C11_ClampedStepExact ==
    (Rendered /\ ~FLess(called'[2], ANIM_DURATION)) =>
        /\ returned'.char_img.time = ANIM_DURATION
        /\ \A i \in DOMAIN returned'.char_img.reveal :
               /\ returned'.char_img.reveal[i].progress = FOne
               /\ returned'.char_img.reveal[i].dashoffset = 0

C11_ClampedStepNear ==
    (Rendered /\ ~FLess(called'[2], ANIM_DURATION)) =>
        /\ returned'.char_img.time = ANIM_DURATION
        /\ \A i \in DOMAIN returned'.char_img.reveal :
               /\ FLeq(returned'.char_img.reveal[i].progress, FOne)
               /\ FLeq(FSub(FOne, returned'.char_img.reveal[i].progress), Tolerance)
               /\ returned'.char_img.reveal[i].dashoffset = 0

SameCaption(a, b) ==
    IF a # None /\ b # None THEN a = b ELSE (a # None) <=> (b # None)

SameFrame(f, g) ==
    /\ f.char_img = g.char_img
    /\ SameCaption(f.pinyin, g.pinyin)
    /\ SameCaption(f.english, g.english)

SameCache(a, b) ==
    /\ DOMAIN a = DOMAIN b
    /\ \A k \in DOMAIN a : SameFrame(a[k], b[k])

\* C12: a call of one clip's frame function leaves the other clip's cache as
\* it was, what it returns is in its own clip's cache and was rendered from
\* its own clip's character, and each cache only ever holds frames of its own
\* clip's character.
C12_CallStep ==
    called' # None =>
        LET c == called'[1]
        IN  /\ \A d \in DOMAIN clips : d # c => SameCache(frame_cache'[d], frame_cache[d])
            /\ \E k \in DOMAIN frame_cache'[c] : SameFrame(frame_cache'[c][k], returned')
            /\ returned'.char_img.svg = clips[c].character

C12_OwnCache ==
    \A c \in DOMAIN clips :
        \A k \in DOMAIN frame_cache[c] :
            frame_cache[c][k].char_img.svg = clips[c].character

C12_CachesIndependent == [](C12_OwnCache) /\ [][C12_CallStep]_vars

\* C12 witness: both clips hold a frame for the same time key, each of its own
\* character, and the clip called last returned its own.
C12_Witness ==
    /\ called # None
    /\ \E k \in DOMAIN frame_cache[1] :
           /\ k \in DOMAIN frame_cache[2]
           /\ frame_cache[1][k].char_img.svg = ClipCharacter
           /\ frame_cache[2][k].char_img.svg = OtherCharacter
           /\ SameFrame(frame_cache[called[1]][k], returned)

(***************************************************************************)
(* Claims about skipped records (under SpecVideo).                         *)
(***************************************************************************)
\* C13 as stated: for a non-empty list of records, generate_video raises no
\* error, whichever of the records have no transcription, also when none has.
C13_SkippingNeverRaises ==
    records # <<>> => pc # "video_error"

(***************************************************************************)
(* Claims about the six slides of slideshow.py (under SpecSlides).         *)
(***************************************************************************)
\* the six slides in the documented order: what each shows, and which carry
\* the pronunciation when it resolves
SlidesInOrder ==
    /\ Len(all_clips) = 6
    /\ [i \in 1..6 |-> all_clips[i].frame.shows] =
           <<"char", "char", "char_pinyin", "all", "all", "all">>
    /\ \A i \in {1, 3, 4, 6} : all_clips[i].audio = None
    /\ \A i \in {2, 5} :
           IF AudioResolves(records[1].pinyin)
           THEN all_clips[i].audio # None
           ELSE all_clips[i].audio = None

\* C14 as stated: a card gives six clips in the documented order, each of
\* duration exactly SLIDE_DURATION, whether or not a recording resolves and
\* however long it is.
C14_SixSlidesOfOneSecond ==
    pc = "slides_done" =>
        /\ SlidesInOrder
        /\ \A i \in 1..6 : all_clips[i].duration = SLIDE_DURATION

\* What slides_for_card gives instead: six clips in the documented order; the
\* four silent clips have duration exactly SLIDE_DURATION, and so have the two
\* clips with sound unless the recording resolves and is longer than
\* SLIDE_DURATION, in which case they have the recording's duration.
C14_SixSlidesAudioExtends ==
    pc = "slides_done" =>
        /\ SlidesInOrder
        /\ \A i \in {1, 3, 4, 6} : all_clips[i].duration = SLIDE_DURATION
        /\ \A i \in {2, 5} :
               all_clips[i].duration =
                   IF AudioResolves(records[1].pinyin)
                      /\ FLess(SLIDE_DURATION, asset_duration)
                   THEN asset_duration
                   ELSE SLIDE_DURATION

\* the recording resolved and is longer than a slide, and the second slide
\* lasts as long as the recording
C14_LongRecording ==
    /\ pc = "slides_done"
    /\ all_clips[2].audio # None
    /\ FLess(SLIDE_DURATION, asset_duration)
    /\ all_clips[2].duration = asset_duration
    /\ all_clips[1].duration = SLIDE_DURATION

(***************************************************************************)
(* Claims about the frame cache of one clip (under SpecFrames).            *)
(***************************************************************************)
FrameIndexTable == [t \in FrameTimes |-> FrameIndex(t)]

\* the cached keys of clip c whose frame index is that of time t
CachedForIndexOf(c, t) ==
    {FrameKeyTable[u] : u \in {v \in FrameTimes :
                                  /\ FrameIndexTable[v] = FrameIndexTable[t]
                                  /\ FrameKeyTable[v] \in DOMAIN frame_cache[c]}}

C15_AtMostOnce ==
    \A c \in DOMAIN render_calls :
        \A k \in DOMAIN render_calls[c] : render_calls[c][k] <= 1

C15_CallStep ==
    (called' # None /\ clips[called'[1]].kind = "animated") =>
        LET c == called'[1]
            hits == CachedForIndexOf(c, called'[2])
        IN  /\ hits # {} =>
                /\ ~Rendered
                /\ \A k \in hits : SameFrame(returned', frame_cache[c][k])
            /\ \A k \in DOMAIN frame_cache[c] :
                   /\ k \in DOMAIN frame_cache'[c]
                   /\ SameFrame(frame_cache'[c][k], frame_cache[c][k])

\* C15: over any sequence of queries to one clip's animated frame function
\* the renderer is invoked at most once per frame index round(t * FPS); a
\* query whose index is already cached returns the cached frame without
\* rendering; and every entry of the cache stays in it unchanged.
C15_RenderedOncePerIndex == [](C15_AtMostOnce) /\ [][C15_CallStep]_vars

\* C15 witness: a time before ANIM_DURATION was answered from the cache with
\* the frame rendered for another time of the same frame index, rendered once.
C15_Witness ==
    /\ called # None
    /\ clips[called[1]].kind = "animated"
    /\ FLess(called[2], ANIM_DURATION)
    /\ returned.char_img.time # called[2]
    /\ render_calls[called[1]][FrameKeyTable[called[2]]] = 1

(***************************************************************************)
(* Claims about the dash offset of a stroke (under SpecAnim).              *)
(***************************************************************************)
C16_OffsetBounds ==
    pc = "rendered" =>
        \A i \in DOMAIN strokes :
            LET L == strokes[i].path_length
            IN  L > 0 =>
                    /\ rendered[i].dashoffset \in 0..(2 * L)
                    /\ rendered[i].progress = FZero => rendered[i].dashoffset = 2 * L
                    /\ rendered[i].progress = FOne => rendered[i].dashoffset = 0

C16_OffsetStep ==
    (pc = "rendered" /\ pc' = "rendered" /\ FLeq(time, time')) =>
        \A i \in DOMAIN strokes :
            strokes[i].path_length > 0 =>
                rendered'[i].dashoffset <= rendered[i].dashoffset

\* C16: for a stroke of path length L > 0 the dash offset render_svg_frame
\* computes is an integer in [0, 2L], is 2L when progress is 0 and 0 when
\* progress is 1, and does not increase from one render to a render at a
\* later or equal time.
C16_DashOffsetMonotoneBounded == [](C16_OffsetBounds) /\ [][C16_OffsetStep]_vars

\* C16 witness: a stroke is rendered part-way, its offset strictly between 0
\* and 2L, next to a stroke still hidden at 2L.
C16_Witness ==
    /\ pc = "rendered"
    /\ \E i, j \in DOMAIN strokes :
           /\ 0 < rendered[i].dashoffset
           /\ rendered[i].dashoffset < 2 * strokes[i].path_length
           /\ rendered[j].progress = FZero
           /\ rendered[j].dashoffset = 2 * strokes[j].path_length

====
